---- MODULE Spec2Model ----
(***************************************************************************)
(* Model of the support tooling of the platform:                           *)
(*   - EntitlementSupportView (lms/djangoapps/support/views/               *)
(*     course_entitlements.py): update / _reinstate_entitlement /          *)
(*     unexpire_entitlement / create, run by concurrent request handlers   *)
(*     against one database;                                               *)
(*   - show_memory_leaks (openedx/core/djangoapps/monitoring_utils/        *)
(*     utils.py): the per-label call counter and the graph file names.     *)
(* Python's None is the string "None"; a falsy request value is None or    *)
(* the empty string.                                                       *)
(***************************************************************************)
EXTENDS Integers, Sequences, FiniteSets, TLC

VARIABLES
    entitlements,     \* committed CourseEntitlement rows: uuid -> row
    support_details,  \* committed CourseEntitlementSupportDetail rows, in insertion order
    enrollments,      \* CourseEnrollment rows: id -> [user, course, is_active]
    unenroll_calls,   \* every CourseEnrollment.unenroll call made, in order
    pc,               \* per handler: where it stands
    op,               \* per handler: the operation of its current request
    req,              \* per handler: request.data and request.user of its current request
    ent,              \* per handler: its in-memory CourseEntitlement instance
    unenrolled_run,   \* per handler: the local unenrolled_run
    txn,              \* per handler: the writes of its open transaction.atomic()
    resp,             \* per handler: what its last request returned
    rid,              \* per handler: the number of its current request (history)
    nreq,             \* requests begun so far (history)
    snap,             \* per handler: the stored row its request read (history)
    dberr,            \* per handler: a DatabaseError was raised in its request (history)
    succeeded,        \* uuids of the reinstatements that returned 201, in order (history)
    indices,          \* monitoring_utils: label -> next value of its itertools.count
    pid,              \* monitoring_utils: os.getpid() of the process
    files,            \* monitoring_utils: the graph files written so far
    calls             \* monitoring_utils: every show_memory_leaks call (history)

view_vars == <<entitlements, support_details, enrollments, unenroll_calls, pc, op, req,
               ent, unenrolled_run, txn, resp, rid, nreq, snap, dberr, succeeded>>
mem_vars == <<indices, pid, files, calls>>
vars == <<view_vars, mem_vars>>

----------------------------------------------------------------------------
(* Bounds of the model *)

\* requests (update or create) begun in one behaviour
MaxRequests == 3

\* show_memory_leaks calls in one behaviour
MaxCalls == 3

----------------------------------------------------------------------------
(* Values *)

None == "None"

\* CourseEntitlementSupportDetail.LEAVE_SESSION
LEAVE_SESSION == "LEAVE"

HTTP_201_CREATED == 201

HTTP_400_BAD_REQUEST == 400

\* an exception that leaves the view: the framework's server error
HTTP_500_SERVER_ERROR == 500

\* the view returned None: no response object at all
NO_RESPONSE == 0

REQUIRED_CREATION_FIELDS == <<"username_or_email", "course_uuid", "reason", "mode">>

Procs == {"p1", "p2"}

\* auth User rows
Users == { [username |-> "alice", email |-> "alice@example.com"],
           [username |-> "bob", email |-> "bob@example.com"] }

InitialUUIDs == {"E1", "E2"}

\* a row that is no row (the instance of a handler that holds none)
NoEnt == [uuid |-> None, user |-> None, course_uuid |-> None, mode |-> None,
          expired_at |-> None, enrollment_course_run |-> None]

NoReq == [entitlement_uuid |-> None, reason |-> None, comments |-> None,
          username_or_email |-> None, course_uuid |-> None, mode |-> None,
          user |-> None]

NoResp == [status |-> NO_RESPONSE, kind |-> "none", name |-> None, data |-> NoEnt]

EmptyTxn == [rows |-> <<>>, details |-> <<>>]

\* the stored row of uuid as a model instance
Instance(uuid, row) ==
    [uuid |-> uuid, user |-> row.user, course_uuid |-> row.course_uuid, mode |-> row.mode,
     expired_at |-> row.expired_at, enrollment_course_run |-> row.enrollment_course_run]

\* the columns an instance is saved to
Row(e) ==
    [user |-> e.user, course_uuid |-> e.course_uuid, mode |-> e.mode,
     expired_at |-> e.expired_at, enrollment_course_run |-> e.enrollment_course_run]

\* `not value` of a request value
falsy(value) == value \in {None, ""}

----------------------------------------------------------------------------
(* Responses *)

\* mutant: the message of the first check pasted into the second, its field name kept
field_required_pasted(fieldname) ==
    [status |-> HTTP_400_BAD_REQUEST, kind |-> "missing_field", name |-> "entitlement_uuid",
     data |-> NoEnt]

\* HttpResponseBadRequest(u'The field {fieldname} is required.')
field_required(fieldname) ==
    [status |-> HTTP_400_BAD_REQUEST, kind |-> "missing_field", name |-> fieldname,
     data |-> NoEnt]

\* HttpResponseBadRequest(u'Could not find entitlement {entitlement_uuid} for update')
entitlement_not_found(entitlement_uuid) ==
    [status |-> HTTP_400_BAD_REQUEST, kind |-> "not_found", name |-> entitlement_uuid,
     data |-> NoEnt]

\* HttpResponseBadRequest(u"Entitlement {entitlement} has not been spent on a course run.")
not_spent_response(e) ==
    [status |-> HTTP_400_BAD_REQUEST, kind |-> "not_spent", name |-> e.uuid, data |-> NoEnt]

\* Response(status=HTTP_201_CREATED, data=SupportCourseEntitlementSerializer(instance).data)
created_response(e) ==
    [status |-> HTTP_201_CREATED, kind |-> "entitlement", name |-> e.uuid, data |-> e]

\* an exception that nothing in the view catches
raised(exception) ==
    [status |-> HTTP_500_SERVER_ERROR, kind |-> exception, name |-> None, data |-> NoEnt]

\* The handler of DatabaseError formats course_uuid and username_or_email, names that
\* neither _reinstate_entitlement nor the module defines: building the message raises
\* NameError, and no HttpResponseBadRequest is returned.
unexpire_failed_response(e) == raised("NameError")

----------------------------------------------------------------------------
(* The storage and the enrollment collaborator *)

\* CourseEntitlement.objects.get(uuid=entitlement_uuid) finds a row
entitlement_exists(entitlement_uuid) == entitlement_uuid \in DOMAIN entitlements

\* User.objects.get(Q(username=username_or_email) | Q(email=username_or_email)) finds a row
user_exists(username_or_email) ==
    \E u \in Users : u.username = username_or_email \/ u.email = username_or_email

\* the username of the row User.objects.get finds
user_of(username_or_email) ==
    (CHOOSE u \in Users : u.username = username_or_email \/ u.email = username_or_email).username

\* the row lock an UPDATE of the entitlement takes until its transaction ends: some
\* other handler's open transaction has written the row
row_locked(p, uuid) ==
    \E q \in Procs \ {p} : \E i \in 1..Len(txn[q].rows) : txn[q].rows[i].uuid = uuid

\* CourseEnrollment.unenroll(user, course_id, skip_refund): the enrollment of user in
\* course_id is made inactive at once, outside the caller's transaction
CourseEnrollment_unenroll(user, course_id) ==
    [n \in DOMAIN enrollments |->
        IF enrollments[n].user = user /\ enrollments[n].course = course_id
        THEN [enrollments[n] EXCEPT !.is_active = FALSE]
        ELSE enrollments[n]]

\* the rows of a committed transaction written over the stored ones
apply_rows(stored, rows) ==
    [u \in DOMAIN stored |->
        IF \E i \in 1..Len(rows) : rows[i].uuid = u
        THEN rows[CHOOSE i \in 1..Len(rows) :
                    rows[i].uuid = u /\ \A j \in 1..Len(rows) : rows[j].uuid = u => j <= i].row
        ELSE stored[u]]

----------------------------------------------------------------------------
(* EntitlementSupportView.update and _reinstate_entitlement *)

\* a handler takes a request
Begin(p, operation, data) ==
    /\ pc[p] \in {"idle", "done"}
    /\ nreq < MaxRequests
    /\ nreq' = nreq + 1
    /\ rid' = [rid EXCEPT ![p] = nreq + 1]
    /\ op' = [op EXCEPT ![p] = operation]
    /\ req' = [req EXCEPT ![p] = data]
    /\ dberr' = [dberr EXCEPT ![p] = FALSE]

\* a handler returns (or raises)
Finish(p, response) ==
    /\ pc' = [pc EXCEPT ![p] = "done"]
    /\ resp' = [resp EXCEPT ![p] = response]

\* mutant: any reason given reinstates
reinstates_any(reason) == TRUE

\* if reason == CourseEntitlementSupportDetail.LEAVE_SESSION
reinstates(reason) == reason = LEAVE_SESSION

\* mutant: the check made on the expiry instead of the enrollment
not_spent_by_expiry(e) == e.expired_at = None

\* if entitlement.enrollment_course_run is None
not_spent(e) == e.enrollment_course_run = None

\* update, up to the first statement of the atomic block: the validation, the read of
\* the entitlement, the dispatch on reason and _reinstate_entitlement's check of the
\* instance just read
update(p, data) ==
    /\ Begin(p, "update", data)
    /\ UNCHANGED <<entitlements, support_details, enrollments, unenroll_calls, txn,
                   succeeded, unenrolled_run, mem_vars>>
    /\ IF falsy(data.entitlement_uuid)
       THEN /\ Finish(p, field_required("entitlement_uuid"))
            /\ ent' = [ent EXCEPT ![p] = NoEnt]
            /\ snap' = [snap EXCEPT ![p] = NoEnt]
       ELSE IF falsy(data.reason)
       THEN /\ Finish(p, field_required("reason"))
            /\ ent' = [ent EXCEPT ![p] = NoEnt]
            /\ snap' = [snap EXCEPT ![p] = NoEnt]
       ELSE IF ~entitlement_exists(data.entitlement_uuid)
       THEN /\ Finish(p, entitlement_not_found(data.entitlement_uuid))
            /\ ent' = [ent EXCEPT ![p] = NoEnt]
            /\ snap' = [snap EXCEPT ![p] = NoEnt]
       ELSE LET e == Instance(data.entitlement_uuid, entitlements[data.entitlement_uuid]) IN
            /\ ent' = [ent EXCEPT ![p] = e]
            /\ snap' = [snap EXCEPT ![p] = e]
            /\ IF reinstates(data.reason)
               THEN IF not_spent(e)
                    THEN Finish(p, not_spent_response(e))
                    ELSE /\ pc' = [pc EXCEPT ![p] = "unexpire"]
                         /\ resp' = [resp EXCEPT ![p] = NoResp]
               \* no branch for any other reason: update falls off its end and returns None
               ELSE Finish(p, NoResp)

\* mutant: the expiry is left as it was
clear_expiry_forgotten(e) == e

\* entitlement.expired_at = None
clear_expiry(e) == [e EXCEPT !.expired_at = None]

\* entitlement.enrollment_course_run = None
clear_enrollment(e) == [e EXCEPT !.enrollment_course_run = None]

\* unexpire_entitlement, to the end of the unenroll call
unexpire_entitlement(p) ==
    /\ pc[p] = "unexpire"
    /\ UNCHANGED <<entitlements, support_details, op, req, rid, nreq, snap, dberr, succeeded,
                   txn, mem_vars>>
    /\ IF ent[p].enrollment_course_run = None
       \* None has no attribute course
       THEN /\ Finish(p, raised("AttributeError"))
            /\ UNCHANGED <<enrollments, unenroll_calls, ent, unenrolled_run>>
       ELSE LET run == enrollments[ent[p].enrollment_course_run] IN
            /\ unenrolled_run' = [unenrolled_run EXCEPT ![p] = run.course]
            /\ ent' = [ent EXCEPT ![p] = clear_expiry(ent[p])]
            /\ unenroll_calls' = Append(unenroll_calls,
                   [user |-> run.user, course_id |-> run.course, skip_refund |-> TRUE])
            /\ enrollments' = CourseEnrollment_unenroll(run.user, run.course)
            /\ pc' = [pc EXCEPT ![p] = "save"]
            /\ UNCHANGED resp

\* unexpire_entitlement: entitlement.enrollment_course_run = None; entitlement.save()
unexpire_save(p) ==
    /\ pc[p] = "save"
    /\ ~row_locked(p, ent[p].uuid)
    /\ LET e == clear_enrollment(ent[p]) IN
       /\ ent' = [ent EXCEPT ![p] = e]
       /\ txn' = [txn EXCEPT ![p].rows = Append(@, [uuid |-> e.uuid, row |-> Row(e)])]
    /\ pc' = [pc EXCEPT ![p] = "support_detail"]
    /\ UNCHANGED <<entitlements, support_details, enrollments, unenroll_calls, op, req,
                   unenrolled_run, resp, rid, nreq, snap, dberr, succeeded, mem_vars>>

\* what leaves the atomic block and the view when a storage call raises DatabaseError:
\* transaction.atomic() rolls the block's writes back, then the except clause runs
database_error(p) ==
    /\ txn' = [txn EXCEPT ![p] = EmptyTxn]
    /\ dberr' = [dberr EXCEPT ![p] = TRUE]
    /\ Finish(p, unexpire_failed_response(ent[p]))

\* unexpire_entitlement: entitlement.save() raises DatabaseError
unexpire_save_fails(p) ==
    /\ pc[p] = "save"
    /\ ent' = [ent EXCEPT ![p] = clear_enrollment(ent[p])]
    /\ database_error(p)
    /\ UNCHANGED <<entitlements, support_details, enrollments, unenroll_calls, op, req,
                   unenrolled_run, rid, nreq, snap, succeeded, mem_vars>>

\* the row CourseEntitlementSupportDetail.objects.create is given in _reinstate_entitlement
reinstate_detail(e, comments, run, support_user) ==
    [entitlement |-> e.uuid, reason |-> LEAVE_SESSION, comments |-> comments,
     unenrolled_run |-> run, support_user |-> support_user]

\* _reinstate_entitlement: CourseEntitlementSupportDetail.objects.create(...)
create_support_detail(p) ==
    /\ pc[p] = "support_detail"
    /\ txn' = [txn EXCEPT ![p].details =
                  Append(@, reinstate_detail(ent[p], req[p].comments, unenrolled_run[p],
                                             req[p].user))]
    /\ pc' = [pc EXCEPT ![p] = "commit"]
    /\ UNCHANGED <<entitlements, support_details, enrollments, unenroll_calls, op, req, ent,
                   unenrolled_run, resp, rid, nreq, snap, dberr, succeeded, mem_vars>>

\* _reinstate_entitlement: CourseEntitlementSupportDetail.objects.create raises DatabaseError
create_support_detail_fails(p) ==
    /\ pc[p] = "support_detail"
    /\ database_error(p)
    /\ UNCHANGED <<entitlements, support_details, enrollments, unenroll_calls, op, req, ent,
                   unenrolled_run, rid, nreq, snap, succeeded, mem_vars>>

\* _reinstate_entitlement: the atomic block ends, its writes are committed and the
\* serialized instance is returned
commit(p) ==
    /\ pc[p] = "commit"
    /\ entitlements' = apply_rows(entitlements, txn[p].rows)
    /\ support_details' = support_details \o txn[p].details
    /\ txn' = [txn EXCEPT ![p] = EmptyTxn]
    /\ succeeded' = Append(succeeded, ent[p].uuid)
    /\ Finish(p, created_response(ent[p]))
    /\ UNCHANGED <<enrollments, unenroll_calls, op, req, ent, unenrolled_run, rid, nreq,
                   snap, dberr, mem_vars>>

----------------------------------------------------------------------------
(* EntitlementSupportView.create *)

\* request.data.get(field)
data_get(data, field) ==
    CASE field = "username_or_email" -> data.username_or_email
      [] field = "course_uuid" -> data.course_uuid
      [] field = "reason" -> data.reason
      [] field = "mode" -> data.mode
      [] field = "entitlement_uuid" -> data.entitlement_uuid
      [] OTHER -> data.comments

\* missing_fields_string after the first n of REQUIRED_CREATION_FIELDS
RECURSIVE missing_fields(_, _)
missing_fields(data, n) ==
    IF n = 0 THEN ""
    ELSE IF falsy(data_get(data, REQUIRED_CREATION_FIELDS[n]))
         THEN missing_fields(data, n - 1) \o " " \o REQUIRED_CREATION_FIELDS[n]
         ELSE missing_fields(data, n - 1)

\* HttpResponseBadRequest(u'The following required fields are missing from the request:...')
fields_missing_response(missing) ==
    [status |-> HTTP_400_BAD_REQUEST, kind |-> "missing_fields", name |-> missing,
     data |-> NoEnt]

\* HttpResponseBadRequest(u'Could not find user {username_or_email}.')
user_not_found(username_or_email) ==
    [status |-> HTTP_400_BAD_REQUEST, kind |-> "user_not_found", name |-> username_or_email,
     data |-> NoEnt]

\* the uuid a new CourseEntitlement row gets (uuid4: one no row has)
new_uuid == "G" \o ToString(Cardinality(DOMAIN entitlements) + 1)

\* CourseEntitlement.objects.create(user, course_uuid, mode): what the manager returns is
\* the new instance alone
objects_create(e) == [kind |-> "instance", instance |-> e]

\* `entitlement, _ = value` binds only a pair; a model instance is not iterable
unpacks(value) == value.kind = "pair"

\* the row CourseEntitlementSupportDetail.objects.create is given in create
creation_detail(e, reason, comments, support_user) ==
    [entitlement |-> e.uuid, reason |-> reason, comments |-> comments,
     unenrolled_run |-> None, support_user |-> support_user]

\* create, whole: no transaction is open, every write is committed as it is made
create(p, data) ==
    /\ Begin(p, "create", data)
    /\ ent' = [ent EXCEPT ![p] = NoEnt]
    /\ snap' = [snap EXCEPT ![p] = NoEnt]
    /\ UNCHANGED <<enrollments, unenroll_calls, txn, succeeded, unenrolled_run, mem_vars>>
    /\ IF missing_fields(data, Len(REQUIRED_CREATION_FIELDS)) # ""
       THEN /\ Finish(p, fields_missing_response(
                             missing_fields(data, Len(REQUIRED_CREATION_FIELDS))))
            /\ UNCHANGED <<entitlements, support_details>>
       ELSE IF ~user_exists(data.username_or_email)
       THEN /\ Finish(p, user_not_found(data.username_or_email))
            /\ UNCHANGED <<entitlements, support_details>>
       ELSE LET e == [uuid |-> new_uuid, user |-> user_of(data.username_or_email),
                      course_uuid |-> data.course_uuid, mode |-> data.mode,
                      expired_at |-> None, enrollment_course_run |-> None]
                created == objects_create(e)
            IN
            /\ entitlements' = [u \in DOMAIN entitlements \cup {e.uuid} |->
                                   IF u = e.uuid THEN Row(e) ELSE entitlements[u]]
            /\ IF unpacks(created)
               THEN /\ support_details' = Append(support_details,
                            creation_detail(e, data.reason, data.comments, data.user))
                    /\ Finish(p, created_response(e))
               \* TypeError leaves the view after the entitlement row is written
               ELSE /\ UNCHANGED support_details
                    /\ Finish(p, raised("TypeError"))

----------------------------------------------------------------------------
(* monitoring_utils.show_memory_leaks *)

\* A string is a sequence of pieces of text; "_" is a piece of its own wherever it occurs.
MEMORY_LEAKS == <<"memory_leaks">>

Labels == { MEMORY_LEAKS, <<"a", "_", "1">> }

\* how many new objects of one type objgraph.get_new_ids may report
NewIdCounts == {0, 1, 2}

TypeNames == {"dict", "set", "list"}

IGNORED_TYPES == {"set"}

MAX_GRAPHED_OBJECT_TYPES == 5

Digit(d) ==
    CASE d = 0 -> "0" [] d = 1 -> "1" [] d = 2 -> "2" [] d = 3 -> "3" [] d = 4 -> "4"
      [] d = 5 -> "5" [] d = 6 -> "6" [] d = 7 -> "7" [] d = 8 -> "8" [] OTHER -> "9"

\* u'{index}'.format(...): the decimal digits of a count
RECURSIVE Decimal(_)
Decimal(n) == IF n < 10 THEN <<Digit(n)>> ELSE Decimal(n \div 10) \o <<Digit(n % 10)>>

\* u'{label}_{pid}_{index}_{type_name}_<kind>.dot'.format(**data)
graph_filename(label, process, index, type_name, kind) ==
    label \o <<"_">> \o process \o <<"_">> \o Decimal(index) \o <<"_">>
          \o <<type_name>> \o <<"_">> \o <<kind, ".dot">>

\* the iteration orders new_ids.items() may have
ItemOrders == { <<"dict", "set", "list">>, <<"list", "set", "dict">> }

\* sorted(items, key=lambda entry: len(entry[1]), reverse=True): a stable sort, so the
\* place of an entry is the number of entries with more ids, or as many and earlier
sorted_by_count(new_ids, items) ==
    LET before(i, j) == \/ new_ids[items[i]] > new_ids[items[j]]
                        \/ new_ids[items[i]] = new_ids[items[j]] /\ i < j
        place(j) == 1 + Cardinality({ i \in DOMAIN items : before(i, j) })
    IN [k \in DOMAIN items |-> items[CHOOSE j \in DOMAIN items : place(j) = k]]

\* the types of one call that get their two graphs
graphed_types(new_ids, items, max_graphed_object_types) ==
    LET sorted == sorted_by_count(new_ids, items) IN
    { sorted[k] : k \in { k \in DOMAIN sorted :
                            /\ k <= max_graphed_object_types
                            /\ sorted[k] \notin IGNORED_TYPES
                            /\ new_ids[sorted[k]] > 0 } }

\* mutant: one counter for every label
next_count_shared(label) == Len(calls)

\* indices[label].next(): indices is defaultdict(itertools.count), a label not met before
\* gets a counter at 0
next_count(label) == IF label \in DOMAIN indices THEN indices[label] ELSE 0

\* index = indices[label].next() + 1
call_index(label) == next_count(label) + 1

show_memory_leaks(label, new_ids, items, max_graphed_object_types) ==
    /\ Len(calls) < MaxCalls
    /\ LET index == call_index(label)
           written == { graph_filename(label, pid, index, t, kind) :
                          t \in graphed_types(new_ids, items, max_graphed_object_types),
                          kind \in {"backrefs", "refs"} }
       IN
       /\ indices' = [l \in DOMAIN indices \cup {label} |->
                         IF l = label THEN next_count(label) + 1 ELSE indices[l]]
       /\ files' = files \cup written
       /\ calls' = Append(calls, [label |-> label, index |-> index, files |-> written])
    /\ UNCHANGED <<pid, view_vars>>

----------------------------------------------------------------------------
(* Specifications *)

\* the states one entitlement may be in: unspent or spent on an enrollment, expired or not
EntitlementStates(user, course_uuid, enrollment) ==
    { [user |-> user, course_uuid |-> course_uuid, mode |-> "verified",
       expired_at |-> x, enrollment_course_run |-> r] :
         x \in {None, "2024-01-01"}, r \in {None, enrollment} }

\* E1 is alice's, in any of its states; E2 is bob's, spent and not expired
InitialEntitlements ==
    { rows \in [InitialUUIDs -> EntitlementStates("alice", "C1", "N1")
                                  \cup EntitlementStates("bob", "C1", "N2")] :
        /\ rows["E1"].user = "alice"
        /\ rows["E2"] = [user |-> "bob", course_uuid |-> "C1", mode |-> "verified",
                         expired_at |-> None, enrollment_course_run |-> "N2"] }

InitialEnrollments ==
    [n \in {"N1", "N2"} |->
        IF n = "N1" THEN [user |-> "alice", course |-> "R1", is_active |-> TRUE]
                    ELSE [user |-> "bob", course |-> "R2", is_active |-> TRUE]]

view_init(rows) ==
    /\ entitlements = rows
    /\ support_details = <<>>
    /\ enrollments = InitialEnrollments
    /\ unenroll_calls = <<>>
    /\ pc = [p \in Procs |-> "idle"]
    /\ op = [p \in Procs |-> None]
    /\ req = [p \in Procs |-> NoReq]
    /\ ent = [p \in Procs |-> NoEnt]
    /\ unenrolled_run = [p \in Procs |-> None]
    /\ txn = [p \in Procs |-> EmptyTxn]
    /\ resp = [p \in Procs |-> NoResp]
    /\ rid = [p \in Procs |-> 0]
    /\ nreq = 0
    /\ snap = [p \in Procs |-> NoEnt]
    /\ dberr = [p \in Procs |-> FALSE]
    /\ succeeded = <<>>

mem_init(process) ==
    /\ indices = <<>>
    /\ pid = process
    /\ files = {}
    /\ calls = <<>>

\* the update requests a handler may be sent: each field absent or present, the uuid
\* of a row or of none, each reason; the comments and the acting user vary where
\* update reads them, on the way to _reinstate_entitlement
UpdateRequests ==
    { [NoReq EXCEPT !.entitlement_uuid = u, !.reason = r, !.user = "staff1"] :
        u \in DOMAIN entitlements, r \in {None, LEAVE_SESSION, "OTHER"} }
    \cup
    { [NoReq EXCEPT !.entitlement_uuid = u, !.reason = LEAVE_SESSION,
                    !.comments = "reinstated per policy", !.user = "staff2"] :
        u \in DOMAIN entitlements }
    \cup
    { [NoReq EXCEPT !.entitlement_uuid = u, !.reason = r, !.user = "staff1"] :
        u \in {"E9"}, r \in {"", LEAVE_SESSION} }
    \cup
    { [NoReq EXCEPT !.entitlement_uuid = None, !.reason = LEAVE_SESSION, !.user = "staff1"],
      [NoReq EXCEPT !.entitlement_uuid = "", !.reason = None, !.user = "staff1"] }

\* the create requests a handler may be sent: complete for a user by email, complete
\* for no user, and with required fields absent (None or empty), one, two or all
CreateRequests ==
    { [NoReq EXCEPT !.username_or_email = f[1], !.course_uuid = f[2], !.reason = f[3],
                    !.mode = f[4], !.comments = "granted", !.user = "staff1"] :
        f \in { <<"bob@example.com", "C2", "OTHER", "verified">>,
                <<"nobody", "C2", "OTHER", "verified">>,
                <<"bob@example.com", "C2", "", "verified">>,
                <<"bob@example.com", None, "OTHER", None>>,
                <<None, None, "", None>> } }

Init == (\E rows \in InitialEntitlements : view_init(rows)) /\ mem_init(<<"4", "2">>)

Next ==
    \/ \E p \in Procs : \E data \in UpdateRequests : update(p, data)
    \/ \E p \in Procs : unexpire_entitlement(p)
    \/ \E p \in Procs : unexpire_save(p)
    \/ \E p \in Procs : unexpire_save_fails(p)
    \/ \E p \in Procs : create_support_detail(p)
    \/ \E p \in Procs : create_support_detail_fails(p)
    \/ \E p \in Procs : commit(p)
    \/ \E p \in Procs : \E data \in CreateRequests : create(p, data)

Spec == Init /\ [][Next]_vars

MemInit ==
    /\ view_init(CHOOSE rows \in InitialEntitlements : TRUE)
    /\ \E process \in {<<"7">>, <<"4", "2">>} : mem_init(process)

MemNext ==
    \E label \in Labels : \E new_ids \in [TypeNames -> NewIdCounts] :
        \E items \in ItemOrders : \E m \in {2, MAX_GRAPHED_OBJECT_TYPES} :
            show_memory_leaks(label, new_ids, items, m)

MemSpec == MemInit /\ [][MemNext]_vars

----------------------------------------------------------------------------
(* Properties *)

\* the stored state a request may change
stores == <<entitlements, support_details, enrollments, unenroll_calls>>

\* handler p takes a step
Steps(p) == pc'[p] # pc[p] \/ rid'[p] # rid[p]

\* handler p takes a request
Begins(p, operation) == rid'[p] # rid[p] /\ op'[p] = operation

\* handler p returns from a request
Returns(p, operation) == Steps(p) /\ pc'[p] = "done" /\ op'[p] = operation

\* the LEAVE_SESSION details stored for an entitlement
LeaveDetails(uuid) ==
    { i \in 1..Len(support_details) :
        /\ support_details[i].entitlement = uuid
        /\ support_details[i].reason = LEAVE_SESSION }

Quiescent == \A p \in Procs : pc[p] \in {"idle", "done"}

\* C1: an update with reason LEAVE_SESSION on a spent entitlement that returns 201 leaves
\* the stored entitlement with no expiry and no enrollment, and adds exactly one support
\* detail: that entitlement, LEAVE_SESSION, the request's comments and user, and the
\* course run the entitlement was spent on when the request read it.
C1_ReinstateSuccess ==
    [][\A p \in Procs :
          (Returns(p, "update") /\ resp'[p].status = HTTP_201_CREATED)
          => /\ snap'[p].enrollment_course_run # None
             /\ req'[p].reason = LEAVE_SESSION
             /\ entitlements'[snap'[p].uuid].expired_at = None
             /\ entitlements'[snap'[p].uuid].enrollment_course_run = None
             /\ support_details' = Append(support_details,
                    [entitlement |-> snap'[p].uuid, reason |-> LEAVE_SESSION,
                     comments |-> req'[p].comments,
                     unenrolled_run |-> enrollments[snap'[p].enrollment_course_run].course,
                     support_user |-> req'[p].user])]_vars

\* an expired, spent entitlement was reinstated with comments
C1_Witness ==
    \E p \in Procs :
        /\ pc[p] = "done" /\ op[p] = "update" /\ resp[p].status = HTTP_201_CREATED
        /\ snap[p].expired_at # None
        /\ req[p].comments = "reinstated per policy"
        /\ Len(support_details) = 1

\* C2: at most one reinstatement succeeds per spent entitlement, also when two requests
\* for it run concurrently: one 201 and one LEAVE_SESSION detail at most.
C2_AtMostOneReinstatement ==
    \A u \in DOMAIN entitlements :
        /\ Cardinality({ i \in 1..Len(succeeded) : succeeded[i] = u }) <= 1
        /\ Cardinality(LeaveDetails(u)) <= 1

\* C3: when a storage call of a reinstatement fails, nothing of it is stored and the
\* caller gets a 400 that reports the failure.
C3_FailureRollsBackAndReports ==
    [][\A p \in Procs :
          (dberr'[p] /\ ~dberr[p])
          => /\ entitlements' = entitlements
             /\ support_details' = support_details
             /\ pc'[p] = "done"
             /\ resp'[p].status = HTTP_400_BAD_REQUEST]_vars

\* C4: a LEAVE_SESSION update of a stored entitlement that has no enrollment returns the
\* not-spent 400 naming it and changes nothing, every time it is made.
C4_NotSpentNoOp ==
    [][\A p \in Procs :
          (/\ Begins(p, "update")
           /\ req'[p].reason = LEAVE_SESSION
           /\ req'[p].entitlement_uuid \in DOMAIN entitlements
           /\ entitlements[req'[p].entitlement_uuid].enrollment_course_run = None)
          => /\ pc'[p] = "done"
             /\ resp'[p].status = HTTP_400_BAD_REQUEST
             /\ resp'[p].kind = "not_spent"
             /\ resp'[p].name = req'[p].entitlement_uuid
             /\ UNCHANGED stores]_vars

\* the not-spent answer given twice for one entitlement, which is expired
C4_Witness ==
    \E p, q \in Procs :
        /\ p # q
        /\ pc[p] = "done" /\ resp[p].kind = "not_spent"
        /\ pc[q] = "done" /\ resp[q].kind = "not_spent"
        /\ resp[p].name = resp[q].name
        /\ entitlements[resp[p].name].expired_at # None

\* C5: every update that has returned returned 201 with the entitlement or 400.
C5_UpdateAlwaysResponds ==
    \A p \in Procs :
        (pc[p] = "done" /\ op[p] = "update")
        => resp[p].status \in {HTTP_201_CREATED, HTTP_400_BAD_REQUEST}

\* C6: an update rejected at validation names an absent field (missing-field error) or
\* the unresolved uuid (not-found error) and changes nothing.
C6_ValidationRejects ==
    [][\A p \in Procs :
          Begins(p, "update") =>
            LET d == req'[p]
                absent == { f \in {"entitlement_uuid", "reason"} :
                              (f = "entitlement_uuid" /\ d.entitlement_uuid \in {None, ""})
                              \/ (f = "reason" /\ d.reason \in {None, ""}) }
            IN
            /\ absent # {}
               => /\ pc'[p] = "done"
                  /\ resp'[p].status = HTTP_400_BAD_REQUEST
                  /\ resp'[p].kind = "missing_field"
                  /\ resp'[p].name \in absent
                  /\ UNCHANGED stores
            /\ (absent = {} /\ d.entitlement_uuid \notin DOMAIN entitlements)
               => /\ pc'[p] = "done"
                  /\ resp'[p].status = HTTP_400_BAD_REQUEST
                  /\ resp'[p].kind = "not_found"
                  /\ resp'[p].name = d.entitlement_uuid
                  /\ UNCHANGED stores]_vars

\* one update rejected for its absent reason, another for its unknown uuid
C6_Witness ==
    \E p, q \in Procs :
        /\ pc[p] = "done" /\ op[p] = "update"
        /\ resp[p].kind = "missing_field" /\ resp[p].name = "reason"
        /\ pc[q] = "done" /\ op[q] = "update"
        /\ resp[q].kind = "not_found" /\ resp[q].name = "E9"

\* C7: when no request is running, the unenroll calls made are as many as the
\* reinstatements that returned 201 and as the LEAVE_SESSION details stored, each with
\* the refund skipped.
C7_UnenrollOnlyOnSuccess ==
    Quiescent =>
        /\ Len(unenroll_calls) = Len(succeeded)
        /\ Len(succeeded) = Cardinality({ i \in 1..Len(support_details) :
                                            support_details[i].reason = LEAVE_SESSION })
        /\ \A i \in 1..Len(unenroll_calls) : unenroll_calls[i].skip_refund

\* C8: no step of an update whose reason is given and is not LEAVE_SESSION, for a
\* stored entitlement, changes an entitlement, a support detail or an enrollment; the
\* request ends in that step.
C8_OtherReasonChangesNothing ==
    [][\A p \in Procs :
          (/\ Steps(p)
           /\ op'[p] = "update"
           /\ req'[p].reason \notin {None, "", LEAVE_SESSION}
           /\ req'[p].entitlement_uuid \in DOMAIN entitlements)
          => /\ pc'[p] = "done"
             /\ UNCHANGED stores]_vars

\* an update with another reason has returned for a spent entitlement
C8_Witness ==
    \E p \in Procs :
        /\ pc[p] = "done" /\ op[p] = "update"
        /\ req[p].reason = "OTHER"
        /\ snap[p].enrollment_course_run # None
        /\ entitlements[snap[p].uuid].enrollment_course_run # None

\* C9: the k-th show_memory_leaks call with a label has index k, whatever calls with
\* other labels came between, and two calls with one label write no file of the same name.
C9_IndexPerLabel ==
    \A i \in 1..Len(calls) :
        /\ calls[i].index = Cardinality({ j \in 1..i : calls[j].label = calls[i].label })
        /\ \A f \in calls[i].files :
              \E t \in TypeNames, kind \in {"backrefs", "refs"} :
                  f = calls[i].label \o <<"_">> \o pid \o <<"_">> \o Decimal(calls[i].index)
                        \o <<"_", t, "_", kind, ".dot">>
        /\ \A j \in 1..Len(calls) :
              (i < j /\ calls[j].label = calls[i].label)
              => /\ calls[i].index < calls[j].index
                 /\ calls[i].files \cap calls[j].files = {}

\* two calls with one label that wrote graphs, a call with another label between them
C9_Witness ==
    /\ Len(calls) = 3
    /\ calls[1].label = calls[3].label
    /\ calls[2].label # calls[1].label
    /\ calls[1].files # {} /\ calls[2].files # {} /\ calls[3].files # {}

\* C10: every entitlement that create added has exactly one support detail, and a
\* create that carries the four required fields and names a user returns 201.
C10_CreateWithAudit ==
    /\ \A u \in DOMAIN entitlements \ InitialUUIDs :
          Cardinality({ i \in 1..Len(support_details) :
                          support_details[i].entitlement = u }) = 1
    /\ \A p \in Procs :
          (/\ pc[p] = "done" /\ op[p] = "create"
           /\ \A i \in DOMAIN REQUIRED_CREATION_FIELDS :
                 data_get(req[p], REQUIRED_CREATION_FIELDS[i]) \notin {None, ""}
           /\ \E u \in Users : req[p].username_or_email \in {u.username, u.email})
          => resp[p].status = HTTP_201_CREATED

====
